---- MODULE Spec2Model ----
(***************************************************************************)
(* Model of the production build driver desktop/scripts/build.py:          *)
(* BuildConfiguration, BuildManager and main().  One behaviour is one run  *)
(* of main(): argument parsing and configuration resolution give Init, the *)
(* statements of main() and of the BuildManager methods it calls are the   *)
(* actions, and every external command goes through run_command.           *)
(* The development setup script desktop/scripts/setup.py is modelled next  *)
(* to it, in the variable setup, with a specification of its own.          *)
(***************************************************************************)
EXTENDS Integers, Sequences, FiniteSets, TLC

VARIABLES
    args,            \* argparse namespace of main()
    host,            \* platform.system().lower() and platform.machine()
    config,          \* the BuildConfiguration built by main()
    signing_config,  \* [loaded, keys]: None (not loaded), or the keys of the JSON object
    pc,              \* the statement of main() / BuildManager reached
    ret,             \* where run_command returns to when the command succeeds
    running,         \* the child processes that have not exited yet
    trace,           \* the commands handed to subprocess.run, with results
    started,         \* the BuildManager stage methods main() has called
    output,          \* the messages main() and run_tests printed
    exit_code,       \* <<>> while the process runs, <<status>> once it has exited
    exception,       \* the exception that ended the run, None if there is none
    profiles,        \* ~/.conan2/profiles: the existing profile files and their content
    build_dirs,      \* the build directories on disk and the files in each
    environ,         \* os.environ of the driver process
    env,             \* BuildManager.env, <<>> before the BuildManager exists
    child_envs,      \* the env= handed to subprocess.run, one per command of trace
    linuxdeploy,     \* what shutil.which("linuxdeploy") returned, once it was asked
    history,         \* the earlier runs of the driver on this machine
    setup            \* the run of desktop/scripts/setup.py: its main() and steps

vars == <<args, host, config, signing_config, pc, ret, running, trace,
          started, output, exit_code, exception, profiles, build_dirs,
          environ, env, child_envs, linuxdeploy, history, setup>>

None == "None"

\* ---------------------------------------------------------------- inputs

TargetOSChoices == {"windows", "macos", "linux"}
ArchChoices == {"x86_64", "armv8", "universal"}
BuildTypeChoices == {"Debug", "Release"}

\* (platform.system().lower(), platform.machine()) of the hosts the driver runs on
Hosts ==
    { [system |-> "darwin",  machine |-> "arm64"],
      [system |-> "darwin",  machine |-> "x86_64"],
      [system |-> "linux",   machine |-> "x86_64"],
      [system |-> "linux",   machine |-> "aarch64"],
      [system |-> "windows", machine |-> "AMD64"] }

\* keys a signing configuration file may carry
SigningKeys == {"identity", "certificate_path", "certificate_password",
                "apple_id", "app_password", "team_id"}

\* contents of the file named by --sign (JSON objects, as their key sets)
SigningConfigs ==
    { {},
      {"identity"},
      {"identity", "apple_id"},
      {"identity", "apple_id", "app_password"},
      {"identity", "apple_id", "app_password", "team_id"},
      {"apple_id", "app_password", "team_id"},
      {"certificate_path"},
      {"certificate_path", "certificate_password"},
      SigningKeys }

\* signing_config = None
NoSigningConfig == [loaded |-> FALSE, keys |-> {}]

\* signing_config = json.load(f)
LoadedConfig(keys) == [loaded |-> TRUE, keys |-> keys]

\* truth value of signing_config: None and the empty dict are false
Truthy(sc) == sc.loaded /\ sc.keys # {}

\* ---------------------------------------------------------------- commands

SignMacosCmds == {"codesign_app", "hdiutil_create", "codesign_dmg",
                  "notarytool_submit", "stapler_staple"}
SignCmds == SignMacosCmds \cup {"signtool_sign"}
PackageCmds == {"makensis", "cpack", "linuxdeploy"}
Commands == {"conan_install", "cmake_configure", "cmake_build", "ctest"}
                \cup SignCmds \cup PackageCmds

\* how a child process ends: exit 0, exit non-zero, still alive at the
\* timeout, or the executable cannot be started at all
Results == {"ok", "fail", "timeout", "not_found"}

\* ---------------------------------------------------------------- BuildConfiguration

\* BuildConfiguration keying the build directory by the host system
BuildConfigurationHostDir(target_os, arch, build_type, h) ==
    LET os == IF target_os # None THEN target_os ELSE h.system
        a  == IF arch = "universal" THEN "universal"
              ELSE IF arch # None THEN arch
              ELSE IF h.machine = "arm64" THEN "armv8" ELSE "x86_64"
    IN  [ target_os     |-> os,
          arch          |-> a,
          build_type    |-> build_type,
          build_dir     |-> <<"build", h.system, a, build_type>>,
          conan_profile |-> <<os, a>> ]

BuildConfiguration(target_os, arch, build_type, h) ==
    LET os == IF target_os # None THEN target_os ELSE h.system
        a  == IF arch = "universal" THEN "universal"
              ELSE IF arch # None THEN arch
              ELSE IF h.machine = "arm64" THEN "armv8" ELSE "x86_64"
    IN  [ target_os     |-> os,
          arch          |-> a,
          build_type    |-> build_type,
          build_dir     |-> <<"build", os, a, build_type>>,
          conan_profile |-> <<os, a>> ]

\* ---------------------------------------------------------------- Init

\* every command line argparse accepts
AllArgs == [ target_os  : TargetOSChoices \cup {None},
             arch       : ArchChoices \cup {None},
             build_type : BuildTypeChoices,
             clean      : BOOLEAN,
             test       : BOOLEAN,
             sign       : {None, "signing.json"},
             package    : BOOLEAN ]

\* os.environ when the driver starts: without and with toolchain variables
\* already set by the user
PlainEnviron == [PATH |-> "/usr/bin"]
Environs == { PlainEnviron,
              [PATH |-> "/usr/bin", CC |-> "clang", CMAKE_GENERATOR |-> "Ninja"] }

\* main() up to config = BuildConfiguration(...), on a machine where the
\* driver has not run before
\* setup.py is not run in the runs of the build driver
SetupNotRun == [pc |-> "not_run"]

InitFor(argset, hostset, environs) ==
    /\ args \in argset
    /\ host \in hostset
    /\ environ \in environs
    /\ config = BuildConfiguration(args.target_os, args.arch, args.build_type, host)
    /\ signing_config = NoSigningConfig
    /\ pc = "create_build_manager"
    /\ ret = None
    /\ running = {}
    /\ trace = <<>>
    /\ child_envs = <<>>
    /\ started = <<>>
    /\ output = <<>>
    /\ exit_code = <<>>
    /\ exception = None
    /\ profiles = <<>>
    /\ build_dirs = <<>>
    /\ env = <<>>
    /\ linuxdeploy = "unchecked"
    /\ history = <<>>
    /\ setup = SetupNotRun

Init == InitFor(AllArgs, Hosts, {PlainEnviron})

\* ---------------------------------------------------------------- BuildManager

\* setup_environment: the variables it sets for a target OS
ToolchainVars(c) ==
    IF c.target_os = "windows"
    THEN [ CMAKE_GENERATOR |-> "Visual Studio 17 2022",
           CMAKE_GENERATOR_PLATFORM |-> IF c.arch = "x86_64" THEN "x64" ELSE "ARM64" ]
    ELSE IF c.target_os = "linux"
    THEN [ CC |-> "gcc", CXX |-> "g++" ]
    ELSE <<>>

\* setup_environment: a copy of os.environ with the toolchain variables set
SetupEnvironment(c, e) == ToolchainVars(c) @@ e

\* setup_environment writing into os.environ itself instead of a copy
OsEnvironInPlace(c, e) == ToolchainVars(c) @@ e

\* os.environ after setup_environment: it worked on os.environ.copy()
OsEnviron(c, e) == e

\* main(): builder = BuildManager(config)
CreateBuildManager ==
    /\ pc = "create_build_manager"
    /\ env' = SetupEnvironment(config, environ)
    /\ environ' = OsEnviron(config, environ)
    /\ pc' = "load_signing_config"
    /\ UNCHANGED <<args, host, config, signing_config, ret, running, trace,
                   child_envs, started, output, exit_code, exception, profiles,
                   build_dirs, linuxdeploy, history>>
    /\ UNCHANGED setup

\* ---------------------------------------------------------------- run_command

\* run_command: subprocess.run raises TimeoutExpired at the timeout,
\* CalledProcessError on a non-zero exit when check is set, and
\* FileNotFoundError when the executable does not exist
\* run_command with the exit status left unchecked
RaisesUnchecked(result, check) ==
    \/ result = "timeout"
    \/ result = "not_found"

\* run_command with the timeout swallowed instead of re-raised
RaisesNoTimeout(result, check) ==
    \/ result = "not_found"
    \/ (check /\ result = "fail")

Raises(result, check) ==
    \/ result = "timeout"
    \/ result = "not_found"
    \/ (check /\ result = "fail")

\* the exception subprocess.run raises for a result
Raised(result) ==
    IF result = "timeout" THEN "TimeoutExpired"
    ELSE IF result = "not_found" THEN "FileNotFoundError"
    ELSE "CalledProcessError"

\* sign_macos_app passing check=False for the bundle signature
CheckExceptCodesign(cmd) == cmd # "codesign_app"

\* the check argument of run_command: every caller leaves it at its default
Check(cmd) == TRUE

\* a child started without waiting for it (Popen instead of run)
LaunchWithoutWaiting(cmd, cont) ==
    /\ trace' = Append(trace, [cmd |-> cmd, result |-> "running"])
    /\ child_envs' = Append(child_envs, env)
    /\ running' = running \cup {cmd}
    /\ pc' = cont
    /\ ret' = None

\* subprocess.run: the child is started and the caller blocks in run_command
\* until it has exited or the timeout has elapsed
Launch(cmd, cont) ==
    /\ trace' = Append(trace, [cmd |-> cmd, result |-> "running"])
    /\ child_envs' = Append(child_envs, env)
    /\ running' = running \cup {cmd}
    /\ pc' = "run_command"
    /\ ret' = cont

\* the handler of main() without its sys.exit(1): the process ends normally
BuildFailedNoExit(out, exc) ==
    /\ output' = Append(out, "Build failed")
    /\ exception' = exc
    /\ exit_code' = <<0>>
    /\ pc' = "exited"

\* a handler of main() that starts the pipeline over instead of exiting
BuildFailedRetry(out, exc) ==
    /\ output' = Append(out, "Build failed")
    /\ exception' = exc
    /\ exit_code' = exit_code
    /\ pc' = "install_dependencies"

\* main(): except Exception as e: print(f"Build failed: {e}"); sys.exit(1)
BuildFailed(out, exc) ==
    /\ output' = Append(out, "Build failed")
    /\ exception' = exc
    /\ exit_code' = <<1>>
    /\ pc' = "exited"

\* run_tests: the messages around its run_command call
TestsMessage(cmd, result) ==
    IF cmd # "ctest" THEN <<>>
    ELSE IF result = "ok" THEN <<"All tests passed!">>
    ELSE IF result = "fail" THEN <<"Some tests failed!">>
    ELSE <<>>

\* what a command that exits with 0 leaves in the build directory it is
\* pointed at: the --output-folder of conan, the -B tree of cmake, the
\* binaries under src, ctest's Testing directory, the disk image, the cpack
\* packages and the AppImage; the signing tools change files in place
Writes(cmd) ==
    IF cmd = "conan_install" THEN {"conan_toolchain.cmake"}
    ELSE IF cmd = "cmake_configure" THEN {"CMakeCache.txt"}
    ELSE IF cmd = "cmake_build" THEN {"src"}
    ELSE IF cmd = "ctest" THEN {"Testing"}
    ELSE IF cmd = "hdiutil_create" THEN {"dmg"}
    ELSE IF cmd = "cpack" THEN {"packages"}
    ELSE IF cmd = "linuxdeploy" THEN {"AppImage"}
    ELSE {}

\* the directory tree after files were written into dir (created if missing)
WriteFiles(dirs, dir, files) ==
    IF files = {} THEN dirs
    ELSE (dir :> ((IF dir \in DOMAIN dirs THEN dirs[dir] ELSE {}) \cup files)) @@ dirs

RunCommandReturn ==
    /\ pc = "run_command"
    /\ \E cmd \in running, result \in Results :
        /\ trace' = [trace EXCEPT ![Len(trace)] = [cmd |-> cmd, result |-> result]]
        /\ running' = running \ {cmd}
        /\ ret' = None
        /\ UNCHANGED child_envs
        /\ build_dirs' = IF result = "ok"
                         THEN WriteFiles(build_dirs, config.build_dir, Writes(cmd))
                         ELSE build_dirs
        /\ IF Raises(result, Check(cmd))
           THEN BuildFailed(output \o TestsMessage(cmd, result), Raised(result))
           ELSE /\ pc' = ret
                /\ output' = output \o TestsMessage(cmd, result)
                /\ UNCHANGED <<exit_code, exception>>
    /\ UNCHANGED <<args, host, config, environ, env, linuxdeploy, history,
                   signing_config, started, profiles>>
    /\ UNCHANGED setup

\* ---------------------------------------------------------------- main(), before the try

\* main() going on without a signing config when the file cannot be loaded
LoadErrorIgnored ==
    /\ pc' = "clean"
    /\ exception' = "LoadError"
    /\ UNCHANGED <<signing_config, exit_code>>

\* open() or json.load() raises, outside the try block: the interpreter
\* prints the traceback and exits with status 1
LoadError ==
    /\ pc' = "exited"
    /\ exit_code' = <<1>>
    /\ exception' = "LoadError"
    /\ UNCHANGED signing_config

LoadSigningConfig ==
    /\ pc = "load_signing_config"
    /\ IF args.sign = None
       THEN /\ pc' = "clean"
            /\ UNCHANGED <<signing_config, exit_code, exception>>
       ELSE \/ LoadError
            \/ \E content \in SigningConfigs :
                 /\ signing_config' = LoadedConfig(content)
                 /\ pc' = "clean"
                 /\ UNCHANGED <<exit_code, exception>>
    /\ UNCHANGED <<args, host, config, environ, env, linuxdeploy, history, ret,
                   running, trace, child_envs, started, output, profiles,
                   build_dirs>>
    /\ UNCHANGED setup

\* ---------------------------------------------------------------- stages

\* clean_build removing the whole build root instead of the triple's directory
RmtreeBuildRoot(dirs, dir) == dir :> {}

\* clean_build: shutil.rmtree(build_dir) if it exists, then mkdir
Rmtree(dirs, dir) == (dir :> {}) @@ dirs

CleanBuild ==
    /\ pc = "clean"
    /\ IF args.clean
       THEN /\ started' = Append(started, "clean_build")
            /\ build_dirs' = Rmtree(build_dirs, config.build_dir)
       ELSE UNCHANGED <<started, build_dirs>>
    /\ pc' = "install_dependencies"
    /\ UNCHANGED <<args, host, config, environ, env, linuxdeploy, history,
                   signing_config, ret, running, trace, child_envs, output,
                   exit_code, exception, profiles>>
    /\ UNCHANGED setup

\* create_conan_profile: the [settings] section written to the profile file
ProfileSettings(c) ==
    LET os_name == IF c.target_os = "macos" THEN "Macos"
                   ELSE IF c.target_os = "windows" THEN "Windows"
                   ELSE IF c.target_os = "linux" THEN "Linux"
                   ELSE "Darwin"
        base == [ os |-> os_name,
                  arch |-> IF c.arch = "universal" THEN "x86_64" ELSE c.arch,
                  build_type |-> c.build_type ]
    IN  IF c.target_os = "macos"
        THEN base @@ [ compiler |-> "apple-clang", compiler_version |-> "14",
                       compiler_libcxx |-> "libc++", compiler_cppstd |-> "20" ]
        ELSE IF c.target_os = "windows"
        THEN base @@ [ compiler |-> "msvc", compiler_version |-> "193",
                       compiler_runtime |-> IF c.build_type = "Release"
                                            THEN "static" ELSE "dynamic" ]
        ELSE base @@ [ compiler |-> "gcc", compiler_version |-> "11",
                       compiler_libcxx |-> "libstdc++11", compiler_cppstd |-> "20" ]

\* install_dependencies creating the profile without looking for the file
ProfileMissingAlways(ps, name) == TRUE

\* install_dependencies: if not profile_path.exists()
ProfileMissing(ps, name) == name \notin DOMAIN ps

InstallDependencies ==
    /\ pc = "install_dependencies"
    /\ started' = Append(started, "install_dependencies")
    /\ profiles' = IF ProfileMissing(profiles, config.conan_profile)
                   THEN (config.conan_profile :> ProfileSettings(config)) @@ profiles
                   ELSE profiles
    /\ Launch("conan_install", "configure_cmake")
    /\ UNCHANGED <<args, host, config, environ, env, linuxdeploy, history,
                   signing_config, output, exit_code, exception, build_dirs>>
    /\ UNCHANGED setup

ConfigureCmake ==
    /\ pc = "configure_cmake"
    /\ started' = Append(started, "configure_cmake")
    /\ Launch("cmake_configure", "build_application")
    /\ UNCHANGED <<args, host, config, environ, env, linuxdeploy, history,
                   signing_config, output, exit_code, exception, profiles,
                   build_dirs>>
    /\ UNCHANGED setup

BuildApplication ==
    /\ pc = "build_application"
    /\ started' = Append(started, "build_application")
    /\ Launch("cmake_build", "run_tests")
    /\ UNCHANGED <<args, host, config, environ, env, linuxdeploy, history,
                   signing_config, output, exit_code, exception, profiles,
                   build_dirs>>
    /\ UNCHANGED setup

\* run_tests without its Release guard
SkipsTestsNever(c) == FALSE

\* run_tests: "Skipping tests in Release build"
SkipsTests(c) == c.build_type = "Release"

\* main(): if args.test
TestRequested(a) == a.test

RunTests ==
    /\ pc = "run_tests"
    /\ IF TestRequested(args)
       THEN /\ started' = Append(started, "run_tests")
            /\ IF SkipsTests(config)
               THEN /\ output' = Append(output, "Skipping tests in Release build")
                    /\ pc' = "sign_application"
                    /\ UNCHANGED <<ret, running, trace, child_envs>>
               ELSE /\ Launch("ctest", "sign_application")
                    /\ UNCHANGED output
       ELSE /\ pc' = "sign_application"
            /\ UNCHANGED <<started, output, ret, running, trace, child_envs>>
    /\ UNCHANGED <<args, host, config, environ, env, linuxdeploy, history,
                   signing_config, exit_code, exception, profiles, build_dirs>>
    /\ UNCHANGED setup

\* ---------------------------------------------------------------- signing

\* sign_application sending windows down the macOS branch as well
SignPathWindowsAsMacos(target_os) ==
    IF target_os \in {"darwin", "windows"} THEN "sign_macos_app"
    ELSE "return"

\* sign_application: the platform branch taken for a target OS
SignPath(target_os) ==
    IF target_os = "darwin" THEN "sign_macos_app"
    ELSE IF target_os = "windows" THEN "sign_windows_app"
    ELSE "return"

\* the keys a sign_* method indexes signing_config with before its first command
RequiredKeys(path) ==
    IF path = "sign_macos_app" THEN {"identity"}
    ELSE IF path = "sign_windows_app" THEN {"certificate_path", "certificate_password"}
    ELSE {}

SignApplication ==
    /\ pc = "sign_application"
    /\ IF Truthy(signing_config)
       THEN /\ started' = Append(started, "sign_application")
            /\ LET path == SignPath(config.target_os) IN
               IF path = "return"
               THEN /\ pc' = "create_package"
                    /\ UNCHANGED <<ret, running, trace, child_envs, output,
                                   exit_code, exception>>
               ELSE IF ~(RequiredKeys(path) \subseteq signing_config.keys)
               THEN \* KeyError while the command line is put together
                    /\ BuildFailed(output, "KeyError")
                    /\ UNCHANGED <<ret, running, trace, child_envs>>
               ELSE /\ Launch(IF path = "sign_macos_app" THEN "codesign_app"
                                                         ELSE "signtool_sign",
                              IF path = "sign_macos_app" THEN "create_dmg"
                                                         ELSE "create_package")
                    /\ UNCHANGED <<output, exit_code, exception>>
       ELSE /\ pc' = "create_package"
            /\ UNCHANGED <<started, ret, running, trace, child_envs, output,
                           exit_code, exception>>
    /\ UNCHANGED <<args, host, config, environ, env, linuxdeploy, history,
                   signing_config, profiles, build_dirs>>
    /\ UNCHANGED setup

\* sign_macos_app, after the bundle is signed: hdiutil create
CreateDmg ==
    /\ pc = "create_dmg"
    /\ Launch("hdiutil_create", "sign_dmg")
    /\ UNCHANGED <<args, host, config, environ, env, linuxdeploy, history,
                   signing_config, started, output, exit_code, exception,
                   profiles, build_dirs>>
    /\ UNCHANGED setup

\* sign_macos_app, after the disk image is created: codesign the disk image
SignDmg ==
    /\ pc = "sign_dmg"
    /\ Launch("codesign_dmg", "notarize")
    /\ UNCHANGED <<args, host, config, environ, env, linuxdeploy, history,
                   signing_config, started, output, exit_code, exception,
                   profiles, build_dirs>>
    /\ UNCHANGED setup

\* sign_macos_app: if "apple_id" in signing_config and "app_password" in signing_config
NotarizeRequested(sc) == "apple_id" \in sc.keys /\ "app_password" \in sc.keys

\* sign_macos_app's last statement and notarize_macos_app up to notarytool submit
Notarize ==
    /\ pc = "notarize"
    /\ IF NotarizeRequested(signing_config)
       THEN IF "team_id" \notin signing_config.keys
            THEN \* KeyError: signing_config["team_id"]
                 /\ BuildFailed(output, "KeyError")
                 /\ UNCHANGED <<ret, running, trace, child_envs>>
            ELSE /\ Launch("notarytool_submit", "staple")
                 /\ UNCHANGED <<output, exit_code, exception>>
       ELSE /\ pc' = "create_package"
            /\ UNCHANGED <<ret, running, trace, child_envs, output, exit_code,
                           exception>>
    /\ UNCHANGED <<args, host, config, environ, env, linuxdeploy, history,
                   signing_config, started, profiles, build_dirs>>
    /\ UNCHANGED setup

\* notarize_macos_app, after the submission returned: xcrun stapler staple
Staple ==
    /\ pc = "staple"
    /\ Launch("stapler_staple", "create_package")
    /\ UNCHANGED <<args, host, config, environ, env, linuxdeploy, history,
                   signing_config, started, output, exit_code, exception,
                   profiles, build_dirs>>
    /\ UNCHANGED setup

\* ---------------------------------------------------------------- packaging

\* create_package without its linux branch
PackagePathNoLinux(target_os) ==
    IF target_os = "windows" THEN "create_windows_installer"
    ELSE "return"

\* create_package: the platform branch taken for a target OS
PackagePath(target_os) ==
    IF target_os = "windows" THEN "create_windows_installer"
    ELSE IF target_os = "linux" THEN "create_linux_packages"
    ELSE "return"

\* main() calling create_package whatever the flag
PackageAlways(a) == TRUE

\* main(): if args.package
PackageRequested(a) == a.package

CreatePackage ==
    /\ pc = "create_package"
    /\ IF PackageRequested(args)
       THEN /\ started' = Append(started, "create_package")
            /\ LET path == PackagePath(config.target_os) IN
               IF path = "create_windows_installer" THEN Launch("makensis", "success")
               ELSE IF path = "create_linux_packages" THEN Launch("cpack", "create_appimage")
               ELSE /\ pc' = "success"
                    /\ UNCHANGED <<ret, running, trace, child_envs>>
       ELSE /\ pc' = "success"
            /\ UNCHANGED <<started, ret, running, trace, child_envs>>
    /\ UNCHANGED <<args, host, config, environ, env, linuxdeploy, history,
                   signing_config, output, exit_code, exception, profiles,
                   build_dirs>>
    /\ UNCHANGED setup

\* create_linux_packages calling create_appimage unconditionally
RunsAppimageAlways(found) == TRUE

\* create_linux_packages: if shutil.which("linuxdeploy")
RunsAppimage(found) == found

\* create_linux_packages after cpack, and create_appimage; staging the AppDir
\* (mkdir, copy2) is taken to succeed, like every other file operation
CreateAppimage ==
    /\ pc = "create_appimage"
    /\ \E found \in BOOLEAN :
         /\ linuxdeploy' = IF found THEN "found" ELSE "absent"
         /\ IF RunsAppimage(found)
            THEN /\ Launch("linuxdeploy", "success")
                 /\ build_dirs' = WriteFiles(build_dirs, config.build_dir,
                                             {"MurmurDesktop.AppDir"})
            ELSE /\ pc' = "success"
                 /\ UNCHANGED <<ret, running, trace, child_envs, build_dirs>>
    /\ UNCHANGED <<args, host, config, environ, env, history, signing_config,
                   started, output, exit_code, exception, profiles>>
    /\ UNCHANGED setup

\* main(): print("Build completed successfully!") and the normal end of the process
Success ==
    /\ pc = "success"
    /\ output' = Append(output, "Build completed successfully!")
    /\ exit_code' = <<0>>
    /\ pc' = "exited"
    /\ UNCHANGED <<args, host, config, environ, env, linuxdeploy, history,
                   signing_config, ret, running, trace, child_envs, started,
                   exception, profiles, build_dirs>>
    /\ UNCHANGED setup

\* ---------------------------------------------------------------- specification

Next ==
    \/ CreateBuildManager
    \/ LoadSigningConfig
    \/ CleanBuild
    \/ InstallDependencies
    \/ ConfigureCmake
    \/ BuildApplication
    \/ RunTests
    \/ SignApplication
    \/ CreateDmg
    \/ SignDmg
    \/ Notarize
    \/ Staple
    \/ CreatePackage
    \/ CreateAppimage
    \/ Success
    \/ RunCommandReturn

Spec == Init /\ [][Next]_vars

\* the same runs, started with each of the environments
InitEnv == InitFor(AllArgs, Hosts, Environs)

SpecEnv == InitEnv /\ [][Next]_vars

\* ---------------------------------------------------------------- successive runs

\* number of runs of the driver on one machine
MaxRuns == 2

\* the command lines of the successive runs: every build type, with and
\* without --clean, for two target systems and two architectures
RunsArgs == [ target_os  : {"linux", "windows"},
              arch       : {"x86_64", "armv8"},
              build_type : BuildTypeChoices,
              clean      : BOOLEAN,
              test       : {FALSE},
              sign       : {None},
              package    : {FALSE} ]

RunsHosts == { [system |-> "linux", machine |-> "x86_64"] }

InitRuns == InitFor(RunsArgs, RunsHosts, {PlainEnviron})

\* the driver is started again after a run has ended: a new process on the
\* same machine, which finds the files the earlier runs left
NewRun ==
    /\ pc = "exited"
    /\ Len(history) + 1 < MaxRuns
    /\ history' = Append(history, [args |-> args, config |-> config,
                                   exit_code |-> exit_code])
    /\ args' \in RunsArgs
    /\ config' = BuildConfiguration(args'.target_os, args'.arch, args'.build_type, host)
    /\ signing_config' = NoSigningConfig
    /\ pc' = "create_build_manager"
    /\ ret' = None
    /\ running' = {}
    /\ trace' = <<>>
    /\ child_envs' = <<>>
    /\ started' = <<>>
    /\ output' = <<>>
    /\ exit_code' = <<>>
    /\ exception' = None
    /\ env' = <<>>
    /\ linuxdeploy' = "unchecked"
    /\ UNCHANGED <<host, environ, profiles, build_dirs>>
    /\ UNCHANGED setup

NextRuns ==
    \/ CreateBuildManager
    \/ LoadSigningConfig
    \/ CleanBuild
    \/ InstallDependencies
    \/ ConfigureCmake
    \/ BuildApplication
    \/ RunTests
    \/ SignApplication
    \/ CreatePackage
    \/ Success
    \/ RunCommandReturn
    \/ NewRun

SpecRuns == InitRuns /\ [][NextRuns]_vars

\* ---------------------------------------------------------------- setup.py

\* every variable of the build driver: setup.py touches none of them
buildvars == <<args, host, config, signing_config, pc, ret, running, trace,
               started, output, exit_code, exception, profiles, build_dirs,
               environ, env, child_envs, linuxdeploy, history>>

\* main(): --skip-deps and --clean (--target and --jobs only shape the
\* command line of the build step and the closing hints)
SetupArgs == [skip_deps : BOOLEAN, clean : BOOLEAN]

\* check_dependencies: required_tools
RequiredTools == {"cmake", "conan", "git"}

\* the machine setup.py runs on: the required tools that are on the PATH,
\* whether find_qt_cmake finds a qt-cmake, whether ./build exists
SetupHosts == [tools : SUBSET RequiredTools, qt_found : BOOLEAN, build_exists : BOOLEAN]

\* main(): the two lists of steps
SetupSteps(a) ==
    IF a.skip_deps
    THEN <<"Configuring CMake", "Building project">>
    ELSE <<"Checking dependencies", "Setting up Conan", "Setting up build directory",
           "Installing dependencies", "Configuring CMake", "Building project">>

\* the function main() paired with each step name
StepFunc(step_name) ==
    IF step_name = "Checking dependencies" THEN "check_dependencies"
    ELSE IF step_name = "Setting up Conan" THEN "setup_conan"
    ELSE IF step_name = "Setting up build directory" THEN "setup_build_directory"
    ELSE IF step_name = "Installing dependencies" THEN "install_dependencies"
    ELSE IF step_name = "Configuring CMake" THEN "configure_cmake"
    ELSE "build_project"

\* the state of setup.py when main() has parsed its arguments
InitSetup ==
    /\ \E a \in SetupArgs, h \in SetupHosts :
         setup = [ pc           |-> "main",
                   args         |-> a,
                   tools        |-> h.tools,
                   qt_found     |-> h.qt_found,
                   build_exists |-> h.build_exists,
                   qt_cmake_cmd |-> None,
                   steps        |-> <<>>,
                   started      |-> <<>>,
                   results      |-> <<>>,
                   trace        |-> <<>>,
                   output       |-> <<>>,
                   exit_code    |-> <<>>,
                   exception    |-> None ]
    /\ args = [target_os |-> "linux", arch |-> "x86_64", build_type |-> "Release",
               clean |-> FALSE, test |-> FALSE, sign |-> None, package |-> FALSE]
    /\ host = [system |-> "linux", machine |-> "x86_64"]
    /\ environ = PlainEnviron
    /\ config = BuildConfiguration(args.target_os, args.arch, args.build_type, host)
    /\ signing_config = NoSigningConfig
    /\ pc = "not_run"
    /\ ret = None
    /\ running = {}
    /\ trace = <<>>
    /\ child_envs = <<>>
    /\ started = <<>>
    /\ output = <<>>
    /\ exit_code = <<>>
    /\ exception = None
    /\ profiles = <<>>
    /\ build_dirs = <<>>
    /\ env = <<>>
    /\ linuxdeploy = "unchecked"
    /\ history = <<>>

\* main(): --clean, find_qt_cmake and the choice of the steps
SetupMain ==
    /\ setup.pc = "main"
    /\ setup' = [setup EXCEPT
                   !.build_exists = IF setup.args.clean THEN FALSE ELSE @,
                   !.qt_cmake_cmd = IF setup.qt_found THEN "qt-cmake" ELSE "cmake",
                   !.steps = SetupSteps(setup.args),
                   !.pc = StepFunc(SetupSteps(setup.args)[1])]
    /\ UNCHANGED buildvars

\* how subprocess.run can end in setup.py's run_command (it sets no timeout):
\* exit 0, exit non-zero, or FileNotFoundError when the executable or the
\* working directory does not exist
SetupCommandResults(s, exe, cwd_exists) ==
    IF (exe = "qt-cmake" \/ exe \in s.tools) /\ cwd_exists
    THEN {"ok", "fail"}
    ELSE {"not_found"}

\* run_command of setup.py: the command is recorded with its result
SetupRan(s, cmd, result) ==
    [s EXCEPT !.trace = Append(@, [cmd |-> cmd, result |-> result])]

\* run_command returning whether the command exited with 0 (a
\* CalledProcessError is caught and gives False)
SetupRunCommandReturns(result) == result = "ok"

\* an exception run_command does not catch reaches the interpreter: traceback
\* and exit status 1
SetupUncaught(s) ==
    [s EXCEPT !.exception = "FileNotFoundError",
              !.exit_code = <<1>>,
              !.pc = "exited"]

\* main(): the banner of a step, printed before its function is called
StepBegun(s, step_name) == [s EXCEPT !.started = Append(@, step_name)]

\* main(): the body of the for loop after step_func() returned ok
StepReturned(s, ok) ==
    LET r == Append(s.results, ok)
    IN  IF ~ok
        THEN [s EXCEPT !.results = r,
                       !.output = Append(@, "Failed at step"),
                       !.exit_code = <<1>>,
                       !.pc = "exited"]
        ELSE [s EXCEPT !.results = r,
                       !.output = Append(@, "Completed"),
                       !.pc = IF Len(r) < Len(s.steps)
                              THEN StepFunc(s.steps[Len(r) + 1])
                              ELSE "completed"]

\* one step function that runs a single command and returns run_command's value
SetupCommandStep(s, cmd, exe) ==
    \E result \in SetupCommandResults(s, exe, s.build_exists) :
        setup' = IF result = "not_found"
                 THEN SetupUncaught(SetupRan(s, cmd, result))
                 ELSE StepReturned(SetupRan(s, cmd, result),
                                   SetupRunCommandReturns(result))

CheckDependencies ==
    /\ setup.pc = "check_dependencies"
    /\ setup' = StepReturned(StepBegun(setup, "Checking dependencies"),
                             RequiredTools \subseteq setup.tools)
    /\ UNCHANGED buildvars

\* setup_conan returning what its two commands returned
SetupConanReturnsResults(detected, added) == detected /\ added

\* setup_conan: return True, whatever run_command returned
SetupConanReturns(detected, added) == TRUE

\* setup_conan: conan profile detect --force, check=False
SetupConanDetect ==
    /\ setup.pc = "setup_conan"
    /\ \E result \in SetupCommandResults(setup, "conan", TRUE) :
         LET s == SetupRan(StepBegun(setup, "Setting up Conan"),
                           "conan_profile_detect", result)
         IN  setup' = IF result = "not_found"
                      THEN SetupUncaught(s)
                      ELSE [s EXCEPT !.pc = "setup_conan_remote"]
    /\ UNCHANGED buildvars

\* setup_conan: conan remote add conancenter, check=False, and the return
SetupConanRemote ==
    /\ setup.pc = "setup_conan_remote"
    /\ \E result \in SetupCommandResults(setup, "conan", TRUE) :
         LET detected == SetupRunCommandReturns(setup.trace[Len(setup.trace)].result)
             s == SetupRan(setup, "conan_remote_add", result)
         IN  setup' = IF result = "not_found"
                      THEN SetupUncaught(s)
                      ELSE StepReturned(s, SetupConanReturns(detected,
                                               SetupRunCommandReturns(result)))
    /\ UNCHANGED buildvars

SetupBuildDirectory ==
    /\ setup.pc = "setup_build_directory"
    /\ setup' = StepReturned([StepBegun(setup, "Setting up build directory")
                                 EXCEPT !.build_exists = TRUE], TRUE)
    /\ UNCHANGED buildvars

\* install_dependencies of setup.py: conan install with cwd='build'
SetupInstallDependencies ==
    /\ setup.pc = "install_dependencies"
    /\ SetupCommandStep(StepBegun(setup, "Installing dependencies"),
                        "conan_install", "conan")
    /\ UNCHANGED buildvars

\* configure_cmake of setup.py: mkdir build/Debug, then qt_cmake_cmd there
SetupConfigureCmake ==
    /\ setup.pc = "configure_cmake"
    /\ SetupCommandStep([StepBegun(setup, "Configuring CMake")
                            EXCEPT !.build_exists = TRUE],
                        "cmake_configure", setup.qt_cmake_cmd)
    /\ UNCHANGED buildvars

\* build_project: cmake --build . in build/Debug
BuildProject ==
    /\ setup.pc = "build_project"
    /\ SetupCommandStep(StepBegun(setup, "Building project"), "cmake_build", "cmake")
    /\ UNCHANGED buildvars

\* main() after the loop: the closing message and the normal end of the process
SetupCompleted ==
    /\ setup.pc = "completed"
    /\ setup' = [setup EXCEPT !.output = Append(@, "Setup completed successfully!"),
                              !.exit_code = <<0>>,
                              !.pc = "exited"]
    /\ UNCHANGED buildvars

NextSetup ==
    \/ SetupMain
    \/ CheckDependencies
    \/ SetupConanDetect
    \/ SetupConanRemote
    \/ SetupBuildDirectory
    \/ SetupInstallDependencies
    \/ SetupConfigureCmake
    \/ BuildProject
    \/ SetupCompleted

SpecSetup == InitSetup /\ [][NextSetup]_vars

\* ---------------------------------------------------------------- reading the run

\* the stage methods in the order main() calls them
StageOrder == <<"clean_build", "install_dependencies", "configure_cmake",
                "build_application", "run_tests", "sign_application",
                "create_package">>

StageIndex(stage) == CHOOSE i \in 1..Len(StageOrder) : StageOrder[i] = stage

\* the stage whose method hands a command to run_command
StageOf(cmd) ==
    IF cmd = "conan_install" THEN "install_dependencies"
    ELSE IF cmd = "cmake_configure" THEN "configure_cmake"
    ELSE IF cmd = "cmake_build" THEN "build_application"
    ELSE IF cmd = "ctest" THEN "run_tests"
    ELSE IF cmd \in SignCmds THEN "sign_application"
    ELSE "create_package"

Positions(cmds) == { i \in 1..Len(trace) : trace[i].cmd \in cmds }
Invoked(cmd) == Positions({cmd}) # {}
Succeeded(cmd) == \E i \in Positions({cmd}) : trace[i].result = "ok"
Ended(cmd, result) == \E i \in Positions({cmd}) : trace[i].result = result
Started(stage) == \E i \in 1..Len(started) : started[i] = stage
Printed(msg) == \E i \in 1..Len(output) : output[i] = msg

\* a stage failed: one of its commands did not end with exit status 0, or the
\* stage raised before it could run one
StageFailed ==
    \/ \E i \in 1..Len(trace) : trace[i].result \in {"fail", "timeout", "not_found"}
    \/ exception = "KeyError"

\* ---------------------------------------------------------------- C1

\* C1: once a command of a stage has exited non-zero, no further command is
\* invoked and no later stage is started; after a failed dependency install
\* neither configure, build, test, sign nor package is ever invoked.
C1_FailureStopsPipeline ==
    /\ \A i \in 1..Len(trace) :
         trace[i].result = "fail" =>
            /\ i = Len(trace)
            /\ started[Len(started)] = StageOf(trace[i].cmd)
            /\ pc = "exited"
    /\ Ended("conan_install", "fail") =>
         /\ Positions(Commands \ {"conan_install"}) = {}
         /\ \A s \in {"configure_cmake", "build_application", "run_tests",
                      "sign_application", "create_package"} : ~Started(s)

C1_Witness ==
    /\ Ended("conan_install", "fail")
    /\ pc = "exited"
    /\ args.test /\ args.package /\ args.clean /\ args.sign # None

\* ---------------------------------------------------------------- C2

\* C2 as stated: the driver exits with 0 exactly when every stage it ran
\* completed without failure, with 1 whenever a stage failed, and prints
\* "Build completed successfully!" only when it exits with 0.
C2_ExitCodeIffNoStageFailed ==
    pc = "exited" =>
        /\ (exit_code = <<0>>) <=> ~StageFailed
        /\ StageFailed => exit_code = <<1>>
        /\ Printed("Build completed successfully!") => exit_code = <<0>>

\* C2, amended: the driver exits with 0 exactly when the signing
\* configuration (if one was named) could be loaded and every stage it ran
\* completed without failure; it exits with 1 whenever a stage failed and
\* also when the signing configuration cannot be loaded; the success message
\* is printed exactly in the exit-0 case.
C2_ExitCode ==
    /\ (pc = "exited") <=> (exit_code # <<>>)
    /\ pc = "exited" =>
        /\ exit_code \in {<<0>>, <<1>>}
        /\ (exit_code = <<0>>) <=> (exception # "LoadError" /\ ~StageFailed)
        /\ StageFailed => exit_code = <<1>>
        /\ Printed("Build completed successfully!") <=> exit_code = <<0>>
    /\ pc # "exited" => ~Printed("Build completed successfully!")

C2_Witness ==
    /\ pc = "exited"
    /\ exit_code = <<0>>
    /\ Succeeded("ctest") /\ Succeeded("signtool_sign") /\ Succeeded("makensis")

\* ---------------------------------------------------------------- C3

\* C3: a command that outlives its timeout makes run_command raise
\* TimeoutExpired instead of returning; the run ends at once with exit code 1
\* and neither a further command nor a later stage follows, whichever stage
\* the command belongs to (the test stage included).
C3_TimeoutAborts ==
    \A i \in 1..Len(trace) :
        trace[i].result = "timeout" =>
            /\ i = Len(trace)
            /\ started[Len(started)] = StageOf(trace[i].cmd)
            /\ exception = "TimeoutExpired"
            /\ pc = "exited"
            /\ exit_code = <<1>>
            /\ ~Printed("Build completed successfully!")

C3_Witness ==
    /\ Ended("ctest", "timeout")
    /\ pc = "exited"
    /\ args.package /\ Truthy(signing_config)

\* ---------------------------------------------------------------- C4

\* C4: the stages of a run start in the order clean, install, configure,
\* build, test, sign, package; a command is handed to run_command only after
\* every command before it has returned successfully, the commands follow
\* the order of their stages, and at most one child process exists at a time.
C4_StrictSequence ==
    /\ \A i, j \in 1..Len(started) :
         i < j => StageIndex(started[i]) < StageIndex(started[j])
    /\ \A i, j \in 1..Len(trace) :
         i < j => /\ trace[i].result = "ok"
                  /\ StageIndex(StageOf(trace[i].cmd)) <= StageIndex(StageOf(trace[j].cmd))
    /\ \A i \in 1..Len(trace) :
         /\ Started(StageOf(trace[i].cmd))
         /\ \A k \in 1..(Len(started) - 1) :
              StageOf(trace[i].cmd) = started[k] => trace[i].result = "ok"
    /\ Cardinality(running) <= 1
    /\ \A c \in running : trace[Len(trace)] = [cmd |-> c, result |-> "running"]
    /\ running # {} <=> pc = "run_command"

C4_Witness ==
    /\ pc = "exited"
    /\ Len(started) = Len(StageOrder)
    /\ Succeeded("ctest") /\ Succeeded("signtool_sign") /\ Succeeded("makensis")

\* ---------------------------------------------------------------- C5

\* a run that ended without the signing configuration failing to load and
\* without a stage failing
CleanRun == pc = "exited" /\ exception # "LoadError" /\ ~StageFailed

\* C5: without --test no ctest is invoked, without a signing configuration no
\* signing, disk-image or notarization command is invoked, without --package
\* no packaging command is invoked; a skipped stage is no failure (the run
\* still exits with 0) and the stages after it still run when requested.
C5_SkipSemantics ==
    /\ ~args.test => ~Invoked("ctest") /\ ~Started("run_tests")
    /\ ~Truthy(signing_config) => Positions(SignCmds) = {} /\ ~Started("sign_application")
    /\ ~args.package => Positions(PackageCmds) = {} /\ ~Started("create_package")
    /\ CleanRun =>
         /\ exit_code = <<0>>
         /\ Started("install_dependencies") /\ Started("build_application")
         /\ args.test => Started("run_tests")
         /\ Truthy(signing_config) => Started("sign_application")
         /\ args.package => Started("create_package")
         /\ (args.package /\ config.target_os = "linux") => Succeeded("cpack")
         /\ (args.package /\ config.target_os = "windows") => Succeeded("makensis")

\* test and sign skipped, package run
C5_Witness ==
    /\ CleanRun
    /\ ~args.test /\ args.sign = None /\ args.package
    /\ Succeeded("cpack")
    /\ ~Started("run_tests") /\ ~Started("sign_application")

\* ---------------------------------------------------------------- C6

\* C6: in a Release build ctest is never invoked, --test or not; the skipped
\* test stage is no failure, so sign and package still run when requested and
\* the run exits with 0; in a Debug build with --test, ctest is invoked
\* exactly once, directly after the build command succeeded.
C6_ReleaseSkipsTests ==
    /\ config.build_type = "Release" => ~Invoked("ctest")
    /\ (config.build_type = "Release" /\ args.test /\ CleanRun) =>
         /\ Started("run_tests")
         /\ Printed("Skipping tests in Release build")
         /\ exit_code = <<0>>
         /\ Truthy(signing_config) => Started("sign_application")
         /\ args.package => Started("create_package")
    /\ Cardinality(Positions({"ctest"})) <= 1
    /\ \A i \in Positions({"ctest"}) :
         /\ config.build_type = "Debug" /\ args.test
         /\ i > 1 /\ trace[i - 1] = [cmd |-> "cmake_build", result |-> "ok"]
    /\ (config.build_type = "Debug" /\ args.test /\ Succeeded("cmake_build")
          /\ pc # "run_tests") => Cardinality(Positions({"ctest"})) = 1

C6_Witness ==
    /\ config.build_type = "Release" /\ args.test
    /\ CleanRun
    /\ Succeeded("signtool_sign") /\ Succeeded("makensis")

\* ---------------------------------------------------------------- C7

\* C7: with a signing configuration and target OS macos, a run that exits
\* with 0 has signed the bundle, then created the disk image, then signed it.
C7_MacosTargetSigns ==
    (pc = "exited" /\ exit_code = <<0>> /\ Truthy(signing_config)
        /\ config.target_os = "macos") =>
      \E i, j, k \in 1..Len(trace) :
         /\ i < j /\ j < k
         /\ trace[i] = [cmd |-> "codesign_app", result |-> "ok"]
         /\ trace[j] = [cmd |-> "hdiutil_create", result |-> "ok"]
         /\ trace[k] = [cmd |-> "codesign_dmg", result |-> "ok"]

\* ---------------------------------------------------------------- C8

OkBefore(cmd, i) == \E j \in 1..(i - 1) : trace[j] = [cmd |-> cmd, result |-> "ok"]

\* C8: in the macOS signing sub-pipeline the disk image is created only after
\* the bundle signature succeeded, signed only after it was created,
\* submitted for notarization only after it was signed, and stapled only
\* after the notarization submission returned successfully.
C8_MacosSigningOrder ==
    \A i \in 1..Len(trace) :
        /\ trace[i].cmd = "hdiutil_create" => OkBefore("codesign_app", i)
        /\ trace[i].cmd = "codesign_dmg" =>
              OkBefore("codesign_app", i) /\ OkBefore("hdiutil_create", i)
        /\ trace[i].cmd = "notarytool_submit" => OkBefore("codesign_dmg", i)
        /\ trace[i].cmd = "stapler_staple" => OkBefore("notarytool_submit", i)

C8_Witness ==
    /\ pc = "exited"
    /\ Succeeded("stapler_staple")

\* ---------------------------------------------------------------- C9

HasAllNotarizationKeys(sc) == {"apple_id", "app_password", "team_id"} \subseteq sc.keys

\* C9: on the macOS signing path notarization is submitted only when
\* apple_id, app_password and team_id are all present; when one of them is
\* absent, notarization and stapling are skipped without error, the signer
\* stops at the signed disk image and the run exits with 0.
C9_NotarizationGate ==
    /\ Invoked("notarytool_submit") => HasAllNotarizationKeys(signing_config)
    /\ (pc = "exited" /\ Succeeded("codesign_dmg")
          /\ ~HasAllNotarizationKeys(signing_config)) =>
         /\ ~Invoked("notarytool_submit")
         /\ ~Invoked("stapler_staple")
         /\ exception = None
         /\ exit_code = <<0>>

\* ---------------------------------------------------------------- C10

\* C10: when --sign named a configuration file and --package is set, a
\* packaging command is invoked only after signing commands have been invoked
\* in that run and all of them succeeded.
C10_NoPackagingUnsigned ==
    (args.sign # None /\ args.package) =>
      \A i \in Positions(PackageCmds) :
         /\ \E j \in Positions(SignCmds) : j < i
         /\ \A j \in Positions(SignCmds) : j < i /\ trace[j].result = "ok"

\* ---------------------------------------------------------------- C11

\* C11: with a signing configuration and target OS windows the sign stage
\* invokes exactly one signing command, signtool on the executable, and ends
\* there: no bundle signature, disk-image creation, disk-image signature,
\* notarization or stapling command is ever invoked, whatever Apple fields
\* the configuration carries.
C11_WindowsSignsOnce ==
    config.target_os = "windows" =>
        /\ Positions(SignMacosCmds) = {}
        /\ Cardinality(Positions({"signtool_sign"})) <= 1
        /\ (Started("sign_application")
              /\ RequiredKeys("sign_windows_app") \subseteq signing_config.keys) =>
             Cardinality(Positions({"signtool_sign"})) = 1
        /\ \A i \in Positions({"signtool_sign"}) :
             /\ Truthy(signing_config)
             /\ i < Len(trace) => /\ trace[i].result = "ok"
                                  /\ trace[i + 1].cmd = "makensis"

C11_Witness ==
    /\ config.target_os = "windows"
    /\ signing_config.keys = SigningKeys
    /\ Succeeded("signtool_sign")
    /\ pc = "exited" /\ exit_code = <<0>>

\* ---------------------------------------------------------------- C12

\* the fields the signing path of a target OS cannot do without
MandatoryKeys(target_os) ==
    IF target_os = "windows" THEN {"certificate_path", "certificate_password"}
    ELSE IF target_os \in {"macos", "darwin"} THEN {"identity"}
    ELSE {}

\* C12: when the loaded signing configuration lacks a field that is mandatory
\* for the target's signing path, the run is fatal: no signing command and no
\* packaging command is invoked and the run exits with 1; the configuration
\* without any field included.
C12_MissingCredentialFatal ==
    (signing_config.loaded
        /\ ~(MandatoryKeys(config.target_os) \subseteq signing_config.keys)) =>
      /\ Positions(SignCmds) = {}
      /\ Positions(PackageCmds) = {}
      /\ pc = "exited" => exit_code = <<1>>

\* ---------------------------------------------------------------- C13

CommandsInvoked == [i \in 1..Len(trace) |-> trace[i].cmd]

IsPrefix(s, t) == Len(s) <= Len(t) /\ \A i \in 1..Len(s) : s[i] = t[i]

LinuxReleasePackageRun ==
    /\ config.target_os = "linux" /\ config.arch = "x86_64"
    /\ config.build_type = "Release"
    /\ ~args.test /\ args.sign = None /\ args.package

\* C13: for (linux, x86_64, Release) with --package, without --test and
\* --sign, and every command succeeding, the run invokes install, configure,
\* build and the packaging tool in that order (then only the AppImage bundler,
\* if present), no test and no signing command, and exits with 0.
C13_LinuxReleasePackage ==
    LinuxReleasePackageRun =>
        /\ IsPrefix(CommandsInvoked, <<"conan_install", "cmake_configure",
                                       "cmake_build", "cpack", "linuxdeploy">>)
        /\ ~Invoked("ctest") /\ Positions(SignCmds) = {}
        /\ ~Started("run_tests") /\ ~Started("sign_application")
        /\ (pc = "exited" /\ \A i \in 1..Len(trace) : trace[i].result = "ok") =>
             /\ IsPrefix(<<"conan_install", "cmake_configure", "cmake_build",
                           "cpack">>, CommandsInvoked)
             /\ exit_code = <<0>>
             /\ Printed("Build completed successfully!")

C13_Witness ==
    /\ LinuxReleasePackageRun
    /\ pc = "exited" /\ exit_code = <<0>>
    /\ CommandsInvoked = <<"conan_install", "cmake_configure", "cmake_build", "cpack">>

\* ---------------------------------------------------------------- C14

\* C14: for a triple given explicitly on the command line the resolved build
\* directory is root/build/{targetOS}-{arch}-{buildType} and the profile name
\* is {targetOS}-{arch}: both are functions of the triple alone, whatever the
\* host, and stay as resolved for the whole run.
C14_ResolutionDeterministic ==
    (args.target_os # None /\ args.arch # None) =>
        /\ config.build_dir = <<"build", args.target_os, args.arch, args.build_type>>
        /\ config.conan_profile = <<args.target_os, args.arch>>

\* an explicit triple resolved on a host of another system and architecture
C14_Witness ==
    /\ args.target_os = "windows" /\ args.arch = "armv8"
    /\ host = [system |-> "linux", machine |-> "x86_64"]
    /\ config.build_dir = <<"build", "windows", "armv8", args.build_type>>
    /\ pc = "exited"

\* ---------------------------------------------------------------- C15

\* C15: every resolved configuration has its target OS among windows, macos,
\* linux, its architecture among x86_64, armv8, universal and its build type
\* among Debug, Release, whichever flags are given or omitted and whatever
\* the host.
C15_ConfigInDomain ==
    /\ config.target_os \in TargetOSChoices
    /\ config.arch \in ArchChoices
    /\ config.build_type \in BuildTypeChoices

\* ---------------------------------------------------------------- C18

\* C18: within one run every external command is attempted at most once, and
\* a command that failed or timed out is never followed by another attempt.
C18_NoRetries ==
    /\ \A cmd \in Commands : Cardinality(Positions({cmd})) <= 1
    /\ \A i \in 1..Len(trace) :
         trace[i].result \in {"fail", "timeout", "not_found"} =>
            /\ i = Len(trace)
            /\ pc = "exited"

C18_Witness ==
    /\ Ended("conan_install", "ok")
    /\ Ended("cmake_configure", "fail")
    /\ pc = "exited"

\* ---------------------------------------------------------------- C20

\* the architecture of a host, from its platform.machine() identifier
NativeArch(machine) ==
    IF machine \in {"arm64", "aarch64", "ARM64"} THEN "armv8" ELSE "x86_64"

\* C20: without --arch the resolved architecture is the host's native one
\* (armv8 on every 64-bit ARM host, x86_64 on every x86-64 host); universal
\* is kept as it is, in the configuration and in the build directory.
C20_ArchDefault ==
    /\ args.arch = None => config.arch = NativeArch(host.machine)
    /\ args.arch = "universal" =>
         /\ config.arch = "universal"
         /\ config.build_dir[3] = "universal"

\* ---------------------------------------------------------------- C16

\* C16: a profile file that exists is never written again: ensuring the
\* profile a second time, with the same configuration or in any later run,
\* leaves the file and its content as they were.
C16_ProfileWrittenOnce ==
    [][\A p \in DOMAIN profiles :
          p \in DOMAIN profiles' /\ profiles'[p] = profiles[p]]_vars

\* the second run with the same configuration has ensured its profile
C16_Witness ==
    /\ Len(history) = 1
    /\ history[1].config = config
    /\ Started("install_dependencies")
    /\ config.conan_profile \in DOMAIN profiles
    /\ profiles[config.conan_profile] = ProfileSettings(config)

\* ---------------------------------------------------------------- C17

HasVar(e, name, value) == name \in DOMAIN e /\ e[name] = value

\* every command was started with the toolchain variables of the target OS
ChildEnvsHaveToolchain ==
    /\ Len(child_envs) = Len(trace)
    /\ \A i \in 1..Len(child_envs) :
         /\ config.target_os = "linux" =>
              /\ HasVar(child_envs[i], "CC", "gcc")
              /\ HasVar(child_envs[i], "CXX", "g++")
         /\ config.target_os = "windows" =>
              /\ HasVar(child_envs[i], "CMAKE_GENERATOR", "Visual Studio 17 2022")
              /\ HasVar(child_envs[i], "CMAKE_GENERATOR_PLATFORM",
                        IF config.arch = "x86_64" THEN "x64" ELSE "ARM64")
         /\ \A name \in DOMAIN environ : name \in DOMAIN child_envs[i]

\* C17: CC/CXX (linux) and CMAKE_GENERATOR/CMAKE_GENERATOR_PLATFORM (windows)
\* are in the environment of every subprocess the pipeline launches, and no
\* step of the run changes the driver's own os.environ.
C17_SubprocessEnvironment ==
    /\ []ChildEnvsHaveToolchain
    /\ [][environ' = environ]_vars

C17_Witness ==
    /\ config.target_os = "linux"
    /\ HasVar(environ, "CC", "clang")
    /\ "CXX" \notin DOMAIN environ
    /\ Len(child_envs) >= 4
    /\ HasVar(child_envs[4], "CC", "gcc")
    /\ pc = "exited"

\* ---------------------------------------------------------------- C19

\* C19: on linux the package stage first invokes cpack; the AppImage bundler
\* is looked for only after cpack succeeded and is invoked only if it was
\* found; when it is absent no bundler command is invoked and the stage
\* still succeeds, so the run exits with 0.
C19_LinuxPackaging ==
    /\ linuxdeploy # "unchecked" =>
         /\ config.target_os = "linux"
         /\ Succeeded("cpack")
    /\ \A i \in Positions({"linuxdeploy"}) :
         /\ linuxdeploy = "found"
         /\ config.target_os = "linux"
         /\ i > 1 /\ trace[i - 1] = [cmd |-> "cpack", result |-> "ok"]
    /\ config.target_os = "linux" => ~Invoked("makensis")
    /\ linuxdeploy = "absent" =>
         /\ ~Invoked("linuxdeploy")
         /\ pc \in {"success", "exited"}
         /\ exception = None
         /\ pc = "exited" => exit_code = <<0>>

C19_Witness ==
    /\ linuxdeploy = "absent"
    /\ Succeeded("cpack")
    /\ pc = "exited" /\ exit_code = <<0>>

\* ---------------------------------------------------------------- C21

\* two triples that differ in the build type only
DiffersOnlyInBuildType(c, d) ==
    /\ c.target_os = d.target_os
    /\ c.arch = d.arch
    /\ c.build_type # d.build_type

\* the profile file the dependency install of the current run is given
UsedProfile == profiles[config.conan_profile]

\* C21: in every run, of any sequence of runs, the profile file the
\* dependency install uses records the build type of the run's triple, and on
\* windows the compiler.runtime that follows from it; two triples that differ
\* in the build type only never use the same profile file.
C21_ProfilePerTriple ==
    /\ Invoked("conan_install") =>
         /\ UsedProfile.build_type = config.build_type
         /\ config.target_os = "windows" =>
              UsedProfile.compiler_runtime =
                 IF config.build_type = "Release" THEN "static" ELSE "dynamic"
    /\ \A i \in 1..Len(history) :
         DiffersOnlyInBuildType(history[i].config, config) =>
            history[i].config.conan_profile # config.conan_profile

\* ---------------------------------------------------------------- C22

\* the step is the clean stage of a run started with --clean
IsCleanStep == pc = "clean" /\ args.clean

\* directory d is on disk after the step with the files it had before
DirUntouched(d) == d \in DOMAIN build_dirs' /\ build_dirs'[d] = build_dirs[d]

\* directory d is on disk after the step and has lost none of its files
DirKept(d) == d \in DOMAIN build_dirs' /\ build_dirs[d] \subseteq build_dirs'[d]

\* C22: the clean stage leaves the build directory of the resolved triple
\* existing and empty and changes no other build directory and no profile
\* file; no other step of any run, and no step at all of a run without
\* --clean, deletes a build directory or a file in one.
C22_CleanFrame ==
    [][/\ IsCleanStep =>
            /\ config.build_dir \in DOMAIN build_dirs'
            /\ build_dirs'[config.build_dir] = {}
            /\ DOMAIN build_dirs' = DOMAIN build_dirs \cup {config.build_dir}
            /\ \A d \in DOMAIN build_dirs \ {config.build_dir} : DirUntouched(d)
            /\ profiles' = profiles
       /\ ~IsCleanStep => \A d \in DOMAIN build_dirs : DirKept(d)
      ]_vars

\* the second run cleaned the directory the first run had built into: the
\* directory is there, empty, and the profile of the first run is still there
C22_Witness ==
    /\ Len(history) = 1
    /\ history[1].config = config
    /\ history[1].exit_code = <<0>>
    /\ args.clean
    /\ pc = "install_dependencies"
    /\ config.build_dir \in DOMAIN build_dirs
    /\ build_dirs[config.build_dir] = {}
    /\ config.conan_profile \in DOMAIN profiles

\* ---------------------------------------------------------------- C23

\* the --sign file could not be opened or parsed
LoadFailed == exception = "LoadError"

\* C23: the signing config is loaded before any stage: when the --sign file
\* cannot be opened or parsed the run ends with exit code 1, no stage (not
\* even clean) has started, no command was invoked and the build directories
\* are as they were; a loaded config is never changed afterwards.
C23_SigningConfigLoadedFirst ==
    /\ [](LoadFailed =>
            /\ pc = "exited" /\ exit_code = <<1>>
            /\ started = <<>> /\ trace = <<>>
            /\ ~Printed("Build completed successfully!"))
    /\ [][/\ LoadFailed' => build_dirs' = build_dirs /\ profiles' = profiles
          /\ signing_config' # signing_config =>
               /\ pc = "load_signing_config"
               /\ signing_config = NoSigningConfig
               /\ started = <<>> /\ trace = <<>>
         ]_vars

\* --sign named an unreadable file in a run that asked for every stage
C23_Witness ==
    /\ LoadFailed
    /\ args.sign # None /\ args.clean /\ args.test /\ args.package
    /\ pc = "exited"
    /\ build_dirs = <<>>

\* ---------------------------------------------------------------- C24

SetupPrinted(msg) == \E i \in 1..Len(setup.output) : setup.output[i] = msg

\* the step in position i has returned False
StepFailed(i) == i <= Len(setup.results) /\ ~setup.results[i]

\* a command of setup_conan exited non-zero
ConanSetupCommandFailed ==
    \E i \in 1..Len(setup.trace) :
        /\ setup.trace[i].cmd \in {"conan_profile_detect", "conan_remote_add"}
        /\ setup.trace[i].result = "fail"

\* C24: setup.py starts its steps in the listed order (six, or configure and
\* build with --skip-deps); a step that reports failure is the last one
\* started and the run ends with exit code 1; "Setup completed successfully!"
\* is printed only when every step reported success; the Conan step reports
\* success also when its commands exit non-zero.
C24_SetupSteps ==
    /\ setup.pc # "main" => setup.steps = SetupSteps(setup.args)
    /\ IsPrefix(setup.started, setup.steps)
    /\ Len(setup.results) <= Len(setup.started)
    /\ Len(setup.started) <= Len(setup.results) + 1
    /\ \A i \in 1..Len(setup.results) :
         StepFailed(i) =>
            /\ i = Len(setup.started)
            /\ setup.pc = "exited"
            /\ setup.exit_code = <<1>>
            /\ SetupPrinted("Failed at step")
    /\ SetupPrinted("Setup completed successfully!") =>
         /\ setup.started = setup.steps
         /\ Len(setup.results) = Len(setup.steps)
         /\ \A i \in 1..Len(setup.results) : setup.results[i]
         /\ setup.exit_code = <<0>>
    /\ \A i \in 1..Len(setup.results) :
         setup.started[i] = "Setting up Conan" => setup.results[i]

\* a full run in which a command of the Conan step exited non-zero and the
\* run still went through all six steps
C24_Witness ==
    /\ ~setup.args.skip_deps
    /\ ConanSetupCommandFailed
    /\ SetupPrinted("Setup completed successfully!")
    /\ Len(setup.results) = 6
    /\ setup.exit_code = <<0>>

====
